---- MODULE Spec2Model ----
(***************************************************************************)
(* Model of the record reconciler of Fall25Streamlit.py:                   *)
(* merge_monthly_and_dues with the cached loaders load_monthly and         *)
(* load_dues.                                                              *)
(*                                                                         *)
(* A text cell is a sequence of one-character strings, a cell of a table   *)
(* is a record [k, s, neg, i, b]:                                          *)
(*   k = "nan"   a missing value (NaN),                                    *)
(*   k = "str"   the text s,                                               *)
(*   k = "int"   the whole number of a column of int64, with the decimal   *)
(*               digits i (no leading zeros), negative when neg,           *)
(*   k = "uint"  the same of a column of uint64,                           *)
(*   k = "num"   the finite float64 i * 2^b, negative when neg,            *)
(*   k = "inf"   the infinite float64, negative when neg.                  *)
(***************************************************************************)
EXTENDS Integers, Sequences, FiniteSets

\* ------------------------------------------------------------ bounds
MaxCampusRows == 2
MaxPayrollRows == 2
MaxDuesRows == 1
MaxCalls == 2

\* ------------------------------------------------------------ cells
NaN == [k |-> "nan", s |-> <<>>, neg |-> FALSE, i |-> <<>>, b |-> 0]
Str(t) == [k |-> "str", s |-> t, neg |-> FALSE, i |-> <<>>, b |-> 0]
Num(negative, int, bin) ==
    [k |-> "num", s |-> <<>>, neg |-> negative /\ int # <<>>, i |-> int, b |-> bin]
Inf(negative) == [k |-> "inf", s |-> <<>>, neg |-> negative, i |-> <<>>, b |-> 0]
Whole(kind, negative, int) ==
    [k |-> kind, s |-> <<>>, neg |-> negative /\ int # <<>>, i |-> int, b |-> 0]

IsNa(c) == c.k = "nan"
IsNumber(c) == c.k \in {"int", "uint", "num", "inf"}

\* ------------------------------------------------------------ text
UpperCase == <<"A","B","C","D","E","F","G","H","I","J","K","L","M",
               "N","O","P","Q","R","S","T","U","V","W","X","Y","Z">>
LowerCase == <<"a","b","c","d","e","f","g","h","i","j","k","l","m",
               "n","o","p","q","r","s","t","u","v","w","x","y","z">>
Digits == <<"0","1","2","3","4","5","6","7","8","9">>
\* What str.strip() removes: the ASCII whitespace, with the vertical tab and
\* the separators \x1c..\x1f. (Python removes \x85, \xa0 and the Unicode
\* spaces too: a string of the model cannot hold them.)
Whitespace == {" ", "\t", "\n", "\r", "\f", "", "", "", "", ""}
\* What the number parser skips around a literal: C's isspace.
CSpace == {" ", "\t", "\n", "\r", "\f", ""}

LowerChar(c) ==
    IF \E n \in 1..Len(UpperCase) : UpperCase[n] = c
    THEN LowerCase[CHOOSE n \in 1..Len(UpperCase) : UpperCase[n] = c]
    ELSE c

\* str.lower()
Lower(t) == [n \in 1..Len(t) |-> LowerChar(t[n])]

\* t without its leading and its trailing characters of the set ws
StripOf(t, ws) ==
    LET keep == {n \in 1..Len(t) : t[n] \notin ws}
        Min(S) == CHOOSE x \in S : \A y \in S : x <= y
        Max(S) == CHOOSE x \in S : \A y \in S : x >= y
    IN  IF keep = {} THEN <<>> ELSE SubSeq(t, Min(keep), Max(keep))

\* str.strip(): without the leading and the trailing whitespace
Strip(t) == StripOf(t, Whitespace)

\* str.startswith(p)
StartsWith(t, p) == Len(t) >= Len(p) /\ SubSeq(t, 1, Len(p)) = p

\* "leo", the case-insensitive prefix for lecturers
LEO_PREFIX == <<"l","e","o">>

\* ------------------------------------------------------------ numbers
IsDigit(c) == \E n \in 1..Len(Digits) : Digits[n] = c
DigitVal(c) == (CHOOSE n \in 1..Len(Digits) : Digits[n] = c) - 1
AllDigits(t) == \A n \in 1..Len(t) : IsDigit(t[n])
\* the element of a set of one element
Only(S) == CHOOSE r \in S : TRUE

\* ------------------------------------------------------------ whole numbers
\* A natural number of any size is the sequence of its decimal digits, the
\* most significant first, without a zero at its head; <<>> is zero.
TrimLeadingZeros(d) ==
    LET first == {n \in 1..Len(d) : d[n] # 0 /\ \A z \in 1..n - 1 : d[z] = 0}
    IN  IF first = {} THEN <<>> ELSE SubSeq(d, CHOOSE n \in first : TRUE, Len(d))

Zeros(n) == [z \in 1..n |-> 0]
One == <<1>>

\* a < b
Less(a, b) ==
    \/ Len(a) < Len(b)
    \/ /\ Len(a) = Len(b)
       /\ \E n \in 1..Len(a) : a[n] < b[n] /\ \A m \in 1..n - 1 : a[m] = b[m]

Odd(a) == a # <<>> /\ a[Len(a)] % 2 = 1

\* the digits of a natural number below 2^31
RECURSIVE ToDigits(_)
ToDigits(c) == IF c = 0 THEN <<>> ELSE ToDigits(c \div 10) \o <<c % 10>>

\* the natural number below 2^31 of the digits d[1..n]
RECURSIVE ValueAt(_, _)
ValueAt(d, n) == IF n = 0 THEN 0 ELSE ValueAt(d, n - 1) * 10 + d[n]

Value(d) == ValueAt(d, Len(d))

\* [d, c] with a[lo..hi] * k + c = c' * 10^(hi - lo + 1) + d, d of hi - lo + 1
\* digits and c' the carry, for k and c below 2^26. (The digits are worked in
\* two halves, the lower half first.)
RECURSIVE TimesIn(_, _, _, _, _)
TimesIn(a, lo, hi, k, c) ==
    IF lo > hi THEN [d |-> <<>>, c |-> c]
    ELSE IF lo = hi
    THEN [d |-> <<(a[lo] * k + c) % 10>>, c |-> (a[lo] * k + c) \div 10]
    ELSE Only({Only({[d |-> l.d \o r.d, c |-> l.c] :
                       l \in {TimesIn(a, lo, (lo + hi) \div 2, k, r.c)}}) :
                 r \in {TimesIn(a, (lo + hi) \div 2 + 1, hi, k, c)}})

\* a * k, for k below 2^26
Times(a, k) ==
    IF k = 0 THEN <<>>
    ELSE Only({ToDigits(r.c) \o r.d : r \in {TimesIn(a, 1, Len(a), k, 0)}})

\* the digit of a at the n-th place from its end
Place(a, n) == IF n <= Len(a) THEN a[Len(a) + 1 - n] ELSE 0

\* [d, c], the places lo..hi of a + b + c and the carry out of them
RECURSIVE AddIn(_, _, _, _, _)
AddIn(a, b, lo, hi, c) ==
    IF lo > hi THEN [d |-> <<>>, c |-> c]
    ELSE IF lo = hi
    THEN [d |-> <<(Place(a, lo) + Place(b, lo) + c) % 10>>,
          c |-> (Place(a, lo) + Place(b, lo) + c) \div 10]
    ELSE Only({Only({[d |-> h.d \o l.d, c |-> h.c] :
                       h \in {AddIn(a, b, (lo + hi) \div 2 + 1, hi, l.c)}}) :
                 l \in {AddIn(a, b, lo, (lo + hi) \div 2, c)}})

\* a + b
Add(a, b) ==
    Only({ToDigits(r.c) \o r.d :
            r \in {AddIn(a, b, 1, IF Len(a) > Len(b) THEN Len(a) ELSE Len(b), 0)}})

\* [d, c], the places lo..hi of a - b - c and the borrow out of them
RECURSIVE SubIn(_, _, _, _, _)
SubIn(a, b, lo, hi, c) ==
    IF lo > hi THEN [d |-> <<>>, c |-> c]
    ELSE IF lo = hi
    THEN [d |-> <<(Place(a, lo) - Place(b, lo) - c + 10) % 10>>,
          c |-> IF Place(a, lo) - Place(b, lo) - c < 0 THEN 1 ELSE 0]
    ELSE Only({Only({[d |-> h.d \o l.d, c |-> h.c] :
                       h \in {SubIn(a, b, (lo + hi) \div 2 + 1, hi, l.c)}}) :
                 l \in {SubIn(a, b, lo, (lo + hi) \div 2, c)}})

\* a - b, for a >= b
Sub(a, b) == TrimLeadingZeros(SubIn(a, b, 1, Len(a), 0).d)

\* [q, r] with r' * 10^(hi - lo + 1) + a[lo..hi] = q * d + r and r < d, q of
\* hi - lo + 1 digits, for d below 2^26 and r' < d
RECURSIVE DivSmallIn(_, _, _, _, _)
DivSmallIn(a, lo, hi, d, r) ==
    IF lo > hi THEN [q |-> <<>>, r |-> r]
    ELSE IF lo = hi
    THEN [q |-> <<(r * 10 + a[lo]) \div d>>, r |-> (r * 10 + a[lo]) % d]
    ELSE Only({Only({[q |-> l.q \o h.q, r |-> h.r] :
                       h \in {DivSmallIn(a, (lo + hi) \div 2 + 1, hi, d, l.r)}}) :
                 l \in {DivSmallIn(a, lo, (lo + hi) \div 2, d, r)}})

\* the quotient of a by d, for d below 2^26
DivSmall(a, d) == TrimLeadingZeros(DivSmallIn(a, 1, Len(a), d, 0).q)

\* the remainder of a by d, for d below 2^26
ModSmall(a, d) == DivSmallIn(a, 1, Len(a), d, 0).r

\* a * 2^n
RECURSIVE ShiftLeft(_, _)
ShiftLeft(a, n) ==
    IF n <= 26 THEN Times(a, 2^n)
    ELSE Only({ShiftLeft(x, n - n \div 2) : x \in {ShiftLeft(a, n \div 2)}})

\* a \div 2^n
RECURSIVE ShiftRight(_, _)
ShiftRight(a, n) ==
    IF n <= 25 THEN DivSmall(a, 2^n)
    ELSE Only({ShiftRight(x, n - n \div 2) : x \in {ShiftRight(a, n \div 2)}})

\* the number of binary digits of a natural number below 2^31
BitLenSmall(v) == CHOOSE n \in 0..31 : (n < 31 => v < 2^n) /\ (n > 0 => v >= 2^(n - 1))

\* The number of binary digits of a. (With L decimal digits a is 2^m at
\* least, m the integer part of (L - 1) * 3.321, and below 2^(m + 5).)
BitLen(a) ==
    IF Len(a) <= 9 THEN BitLenSmall(Value(a))
    ELSE Only({m + BitLenSmall(Value(ShiftRight(a, m))) :
                 m \in {((Len(a) - 1) * 3321) \div 1000}})

\* the number of zeros at the end of the binary digits of a, for a > 0
RECURSIVE TrailingZeroBits(_)
TrailingZeroBits(a) ==
    Only({IF v = 0 THEN 25 + TrailingZeroBits(ShiftRight(a, 25))
          ELSE CHOOSE n \in 0..24 : v % 2^n = 0 /\ v % 2^(n + 1) # 0 :
            v \in {ModSmall(a, 2^25)}})

\* acc * 10^(hi - lo + 1) + a[lo..hi] * b
RECURSIVE MulIn(_, _, _, _, _)
MulIn(a, lo, hi, b, acc) ==
    IF lo > hi THEN acc
    ELSE IF lo = hi THEN Add(Times(acc, 10), Times(b, a[lo]))
    ELSE Only({MulIn(a, (lo + hi) \div 2 + 1, hi, b, l) :
                 l \in {MulIn(a, lo, (lo + hi) \div 2, b, acc)}})

\* a * b
Mul(a, b) == Only({MulIn(x, 1, Len(x), y, <<>>) : x \in {a}, y \in {b}})

\* the greatest k with b * k <= r, for r < b * 10
QuotDigit(r, b) ==
    IF Less(r, b) THEN 0
    ELSE CHOOSE k \in 1..9 : ~Less(r, Times(b, k)) /\ Less(r, Times(b, k + 1))

\* one step of the long division: the next digit of the quotient and the
\* remainder that is left
DivStep(r, b) ==
    Only({[k |-> k, r |-> IF k = 0 THEN r ELSE Sub(r, Times(b, k))] :
            k \in {QuotDigit(r, b)}})

\* [q, r] with r' * 10^(hi - lo + 1) + a[lo..hi] = q * b + r and r < b, q of
\* hi - lo + 1 digits, for r' < b
RECURSIVE DivModIn(_, _, _, _, _)
DivModIn(a, lo, hi, b, r) ==
    IF lo > hi THEN [q |-> <<>>, r |-> r]
    ELSE IF lo = hi
    THEN Only({[q |-> <<st.k>>, r |-> st.r] :
                 st \in {DivStep(TrimLeadingZeros(r \o <<a[lo]>>), b)}})
    ELSE Only({Only({[q |-> l.q \o h.q, r |-> h.r] :
                       h \in {DivModIn(a, (lo + hi) \div 2 + 1, hi, b, l.r)}}) :
                 l \in {DivModIn(a, lo, (lo + hi) \div 2, b, r)}})

\* [q, r] with a = q * b + r and r < b, for b > 0
DivMod(a, b) ==
    Only({[q |-> TrimLeadingZeros(dm.q), r |-> dm.r] :
            dm \in {Only({DivModIn(x, 1, Len(x), y, <<>>) : x \in {a}, y \in {b}})}})
\* ------------------------------------------------------------ float64
\* A finite float64 is Num(neg, i, b), the number i * 2^b (negative when neg):
\* b = 0 for a whole number below 2^53, and i is odd for any other number.
Larger(x, y) == IF x >= y THEN x ELSE y
Smaller(x, y) == IF x <= y THEN x ELSE y

\* The float64 M * 2^e, for M <= 2^53 and a multiple of 2^-1074: infinite
\* from 2^1024 on.
Finite(negative, M, e) ==
    IF M = <<>> THEN Num(FALSE, <<>>, 0)
    ELSE Only({IF e + n > 1024 THEN Inf(negative)
               ELSE IF e >= 0 /\ e + n <= 53 THEN Num(negative, ShiftLeft(M, e), 0)
               ELSE Only({Num(negative, ShiftRight(M, z), e + z) :
                            z \in {IF e < 0 THEN Smaller(TrailingZeroBits(M), 0 - e)
                                   ELSE TrailingZeroBits(M)}}) :
                 n \in {BitLen(M)}})

\* The multiple of 2^e nearest to (dm.q + dm.r / den) * 2^e, the even one of
\* two that are equally near.
Nearest(negative, dm, den, e) ==
    Only({Finite(negative,
                 IF Less(den, twice) \/ (twice = den /\ Odd(dm.q))
                 THEN Add(dm.q, One) ELSE dm.q,
                 e) :
            twice \in {Times(dm.r, 2)}})

\* the integer part of the binary logarithm of p / q
Log2Floor(p, q) ==
    Only({IF Less(ShiftLeft(p, Larger(0 - d, 0)), ShiftLeft(q, Larger(d, 0)))
          THEN d - 1 ELSE d :
            d \in {BitLen(p) - BitLen(q)}})

\* (p / q) * 2^E rounded to 53 binary digits that end at 2^t * 2^E
RoundAt(negative, p, q, E, t) ==
    Only({Only({Nearest(negative, dm, den, E + t) :
                  dm \in {DivMod(IF t < 0 THEN ShiftLeft(p, 0 - t) ELSE p, den)}}) :
            den \in {IF t > 0 THEN ShiftLeft(q, t) ELSE q}})

RoundGeneral(negative, p, q, E) ==
    Only({RoundAt(negative, p, q, E, Larger(L - 52, 0 - 1074 - E)) :
            L \in {Log2Floor(p, q)}})

\* The float64 nearest to (p / q) * 2^E, for q > 0: round to nearest, ties to
\* even, with the subnormal numbers, and infinite on overflow. (A whole
\* number below 2^53 is its own float64.)
Round(negative, a, b, E) ==
    Only({IF p = <<>> THEN Num(FALSE, <<>>, 0)
          ELSE IF E = 0 /\ q = One /\ Len(p) <= 15 THEN Num(negative, p, 0)
          ELSE Only({IF dm.r = <<>> THEN Num(negative, dm.q, 0)
                     ELSE RoundGeneral(negative, p, q, E) :
                       dm \in {IF E = 0 /\ Len(p) <= 15 THEN DivMod(p, q)
                               ELSE [q |-> <<>>, r |-> One]}}) :
            p \in {a}, q \in {b}})

\* x * y, x / y and x + y in float64 (op is "*", "/" or "+"), for finite x
\* and y, y # 0 for "/", x >= 0 and y >= 0 for "+"
Arith(op, x, y) ==
    Only({Round(op # "+" /\ x.neg # y.neg,
                IF op = "*" THEN Mul(x.i, y.i)
                ELSE IF op = "/" THEN x.i
                ELSE Add(ShiftLeft(x.i, x.b - m), ShiftLeft(y.i, y.b - m)),
                IF op = "/" THEN y.i ELSE One,
                IF op = "*" THEN x.b + y.b
                ELSE IF op = "/" THEN x.b - y.b
                ELSE m) :
            m \in {Smaller(x.b, y.b)}})

\* 5^k
RECURSIVE Pow5(_)
Pow5(k) ==
    IF k <= 13 THEN ToDigits(5^k)
    ELSE Only({IF k % 2 = 1 THEN Times(Mul(h, h), 5) ELSE Mul(h, h) :
                 h \in {Pow5(k \div 2)}})

\* e[k] of the parser's table of the powers of ten: the float64 1e<k>
E10(k) ==
    IF k <= 15 THEN Num(FALSE, <<1>> \o Zeros(k), 0)
    ELSE Round(FALSE, Pow5(k), One, k)

\* number = number * 10. + digit over the digits d[1..n]: exact up to 15
\* digits, rounded twice a digit after them
RECURSIVE Accumulate(_, _)
Accumulate(d, n) ==
    IF n <= 15 THEN Num(FALSE, TrimLeadingZeros(SubSeq(d, 1, n)), 0)
    ELSE Only({Arith("+", Arith("*", x, Num(FALSE, <<1, 0>>, 0)),
                     Num(FALSE, ToDigits(d[n]), 0)) :
                 x \in {Accumulate(d, n - 1)}})

\* The number times ten to the exponent, as the parser scales it: multiplied
\* by e[exponent], divided by e[-exponent], or, below -308, divided by
\* e[-308 - exponent] and then by e[308]; infinite for ERANGE.
RECURSIVE Scale(_, _)
Scale(number, exponent) ==
    IF exponent > 308 THEN Inf(FALSE)
    ELSE IF exponent < 0 - 616 THEN Num(FALSE, <<>>, 0)
    ELSE IF exponent < 0 - 308 THEN Scale(Scale(number, exponent + 308), 0 - 308)
    ELSE Arith(IF exponent > 0 THEN "*" ELSE "/", number,
               E10(IF exponent > 0 THEN exponent ELSE 0 - exponent))

\* the int of the 32 bits hi * 2^16 + lo
Int32(hi, lo) ==
    IF hi >= 32768 THEN (hi - 65536) * 65536 + lo ELSE hi * 65536 + lo

\* exponent + n or exponent - n in the parser's int, n the int of the digits
\* xd (both computed in 32 bits)
AddExponent(exponent, negative, xd) ==
    LET nlo == ModSmall(xd, 65536)
        nhi == ModSmall(DivSmall(xd, 65536), 65536)
        lo == IF negative THEN (65536 - nlo) % 65536 ELSE nlo
        hi == IF negative THEN (65536 + 65535 - nhi + (IF nlo = 0 THEN 1 ELSE 0)) % 65536
              ELSE nhi
        slo == (exponent % 65536) + lo
        shi == ((exponent \div 65536) % 65536) + hi + (slo \div 65536)
    IN  Int32(shi % 65536, slo % 65536)

DigitVals(t) == SubSeq([n \in 1..Len(t) |-> DigitVal(t[n])], 1, Len(t))

\* The number of the mantissa m (digits with an optional point, a digit at
\* least) and the exponent digits xd, NaN when m is no mantissa: 17 digits of
\* the mantissa count, the digits before the point beyond them are zeros and
\* those after it are dropped.
Mantissa(m, hasExp, xneg, xd) ==
    LET dots == {n \in 1..Len(m) : m[n] = "."}
        p == IF dots = {} THEN Len(m) + 1 ELSE CHOOSE n \in dots : \A o \in dots : n <= o
        ip == SubSeq(m, 1, p - 1)
        fp == SubSeq(m, p + 1, Len(m))
        ui == Smaller(Len(ip), 17)
        uf == Smaller(Len(fp), 17 - ui)
    IN  IF /\ Cardinality(dots) <= 1
           /\ Len(ip) + Len(fp) > 0
           /\ AllDigits(ip) /\ AllDigits(fp)
        THEN Only({Scale(number, exponent) :
                    number \in {Accumulate(DigitVals(SubSeq(ip, 1, ui) \o SubSeq(fp, 1, uf)),
                                           ui + uf)},
                    exponent \in {IF hasExp
                                  THEN AddExponent(Len(ip) - ui - uf, xneg, DigitVals(xd))
                                  ELSE Len(ip) - ui - uf}})
        ELSE NaN

\* The number of the literal v without its sign: a mantissa and an optional
\* exponent (e or E, an optional sign, 1 to 17 digits).
Unsigned(v) ==
    LET es == {n \in 1..Len(v) : v[n] \in {"e", "E"}}
        e == IF es = {} THEN Len(v) + 1 ELSE CHOOSE n \in es : TRUE
        x == SubSeq(v, e + 1, Len(v))
        xsigned == Len(x) > 0 /\ x[1] \in {"+", "-"}
        xd == IF xsigned THEN Tail(x) ELSE x
    IN  IF es = {} \/ (Cardinality(es) = 1 /\ Len(xd) > 0 /\ Len(xd) <= 17
                       /\ AllDigits(xd))
        THEN Mantissa(SubSeq(v, 1, e - 1), es # {}, xsigned /\ x[1] = "-", xd)
        ELSE NaN

WithSign(negative, r) ==
    IF r.k = "num" THEN Num(negative, r.i, r.b)
    ELSE IF r.k = "inf" THEN Inf(negative)
    ELSE r

\* precise_xstrtod on the literal u: an optional sign and an unsigned
\* literal; NaN for what is no literal, infinite for ERANGE.
Signed(u) ==
    Only({WithSign(Len(u) > 0 /\ u[1] = "-", r) :
            r \in {Unsigned(IF Len(u) > 0 /\ u[1] \in {"+", "-"} THEN Tail(u) ELSE u)}})

InfWords == {<<"i","n","f">>, <<"+","i","n","f">>,
             <<"i","n","f","i","n","i","t","y">>,
             <<"+","i","n","f","i","n","i","t","y">>}
NegInfWords == {<<"-","i","n","f">>, <<"-","i","n","f","i","n","i","t","y">>}

\* Variant: only a run of digits is a number ("12345.0" is not).
ParseNumberIntOnly(t) ==
    Only({IF Len(u) > 0 /\ AllDigits(u) THEN Signed(u) ELSE NaN :
            u \in {StripOf(t, CSpace)}})

\* The float64 a text denotes for pd.to_numeric (floatify): the parser's
\* number when the text is a literal with whitespace around it, or a spelling
\* of infinity; NaN for any other text, ERANGE included.
ParseNumber(t) ==
    Only({IF r.k = "num" THEN r
          ELSE IF Lower(t) \in InfWords THEN Inf(FALSE)
          ELSE IF Lower(t) \in NegInfWords THEN Inf(TRUE)
          ELSE NaN :
            r \in {Signed(StripOf(t, CSpace))}})

\* maybe_int: the literal is digits with an optional sign, without a point
\* and without an exponent
IsWhole(t) ==
    LET u == StripOf(t, CSpace)
        v == IF Len(u) > 0 /\ u[1] \in {"+", "-"} THEN Tail(u) ELSE u
    IN  Len(v) > 0 /\ AllDigits(v)

\* int(val), as [neg, i]
WholeOf(t) ==
    LET u == StripOf(t, CSpace)
        v == IF Len(u) > 0 /\ u[1] \in {"+", "-"} THEN Tail(u) ELSE u
    IN  Only({[neg |-> u[1] = "-" /\ d # <<>>, i |-> d] :
                d \in {TrimLeadingZeros(DigitVals(v))}})

\* 2^63 and 2^64
TwoTo63 == <<9,2,2,3,3,7,2,0,3,6,8,5,4,7,7,5,8,0,8>>
TwoTo64 == <<1,8,4,4,6,7,4,4,0,7,3,7,0,9,5,5,1,6,1,6>>

\* What the conversion finds in one cell of a column of objects: the float64
\* f, and for a text that is a whole number (whole) that number, [neg, i].
Scanned(c) ==
    IF c.k = "str"
    THEN Only({IF r.k = "num" /\ IsWhole(c.s)
               THEN Only({[f |-> r, whole |-> TRUE, neg |-> w.neg, i |-> w.i] :
                            w \in {WholeOf(c.s)}})
               ELSE [f |-> r, whole |-> FALSE, neg |-> FALSE, i |-> <<>>] :
                 r \in {ParseNumber(c.s)}})
    ELSE [f |-> NaN, whole |-> FALSE, neg |-> FALSE, i |-> <<>>]

\* a whole number below -2^63 or above 2^64 - 1
OutOfRange(w) ==
    /\ Len(w.i) > 18
    /\ IF w.neg THEN Less(TwoTo63, w.i) ELSE ~Less(w.i, TwoTo64)

\* a whole number above 2^63 - 1 (for uint64), one below 0 (for int64 alone)
IsUint(w) == w.whole /\ ~OutOfRange(w) /\ ~w.neg /\ Len(w.i) > 18 /\ ~Less(w.i, TwoTo63)
IsSint(w) == w.whole /\ ~OutOfRange(w) /\ w.neg

\* The column of the scanned cells sc: float64 when a cell is no whole number
\* (a decimal, an exponent, an infinity, NaN), is out of the range of the
\* integers, or when the column holds a negative number and one above
\* 2^63 - 1; else uint64 with a number above 2^63 - 1, else int64.
Converted(sc) ==
    LET float == \/ \E n \in 1..Len(sc) : ~sc[n].whole \/ OutOfRange(sc[n])
                 \/ /\ \E n \in 1..Len(sc) : IsUint(sc[n])
                    /\ \E n \in 1..Len(sc) : IsSint(sc[n])
        kind == IF \E n \in 1..Len(sc) : IsUint(sc[n]) THEN "uint" ELSE "int"
    IN  SubSeq([n \in 1..Len(sc) |->
                   IF float THEN sc[n].f ELSE Whole(kind, sc[n].neg, sc[n].i)],
               1, Len(sc))

\* Variant: what is no text becomes NaN, a number included.
ToNumericTextOnly(col) ==
    Only({Converted(sc) :
            sc \in {SubSeq([n \in 1..Len(col) |-> Scanned(col[n])], 1, Len(col))}})

\* pd.to_numeric(col, errors="coerce") on a column: a column of numbers stays
\* as it is; in a column of objects a text is parsed, and what cannot be
\* parsed or is missing becomes NaN.
to_numeric(col) ==
    IF \A n \in 1..Len(col) : col[n].k # "str" THEN col
    ELSE Only({Converted(sc) :
                 sc \in {SubSeq([n \in 1..Len(col) |-> Scanned(col[n])], 1, Len(col))}})

\* pd.to_numeric on the column of the one cell c
ToNumeric(c) == to_numeric(<<c>>)[1]

\* a key as float64: the cast of a whole number rounds it
AsFloat(c) == IF c.k \in {"int", "uint"} THEN Round(c.neg, c.i, One, 0) ELSE c

\* Equality of two join keys as DataFrame.merge and Series.isin decide it:
\* two columns of the same integers are compared as they are, of any two
\* other columns as float64; equal numbers match, and a missing key matches a
\* missing key.
KeyMatch(a, b) ==
    IF a.k \in {"int", "uint"} /\ a.k = b.k THEN a = b
    ELSE a.k # "str" /\ b.k # "str" /\ AsFloat(a) = AsFloat(b)

\* the whole number or the numerator of a finite number, and its binary
\* exponent, the numerator odd (zero as [<<>>, 0])
Odded(c) ==
    IF c.i = <<>> THEN [i |-> <<>>, b |-> 0]
    ELSE Only({[i |-> ShiftRight(c.i, z), b |-> c.b + z] :
                 z \in {TrailingZeroBits(c.i)}})

\* Numeric equality proper: the two cells are numbers and the same number;
\* NaN equals nothing.
NumEq(a, b) ==
    /\ IsNumber(a) /\ IsNumber(b)
    /\ a.neg = b.neg
    /\ (a.k = "inf") = (b.k = "inf")
    /\ a.k # "inf" => Odded(a) = Odded(b)

\* ------------------------------------------------------------ state
VARIABLES
    df,            \* the campus table handed to merge_monthly_and_dues
    monthlyFile,   \* MonthlySept25.csv as read with dtype=str
    augDuesFile,   \* AugDues.csv
    augDuesGFile,  \* AugDuesG.csv
    cacheMonthly,  \* the st.cache_data entry of load_monthly
    cacheDues,     \* the st.cache_data entry of load_dues
    monthly,       \* the local monthly when the last call returned
    dues_df,       \* the local dues_df when the last call returned
    joined,        \* the local merged after the join of the last call
    merged,        \* the table the last call returned
    returned,      \* the tables returned so far, one per call that returned
    warnings,      \* the st.warning messages shown so far
    raised,        \* whether the last call ended with an exception
    calls,         \* the calls made so far
    df_in          \* df as it was when the last call began

vars == <<df, monthlyFile, augDuesFile, augDuesGFile, cacheMonthly, cacheDues,
          monthly, dues_df, joined, merged, returned, warnings, raised, calls,
          df_in>>

\* A campus table is a sequence of rows [cls, id]: cls stands for the class
\* columns of the row, id is the cell of the column id_col.
\* A payroll table is a sequence of rows [emp, umid, title]: emp stands for
\* the other payroll columns, umid is "UM ID", title is "Job Title".
\* A dues table is [hasId, ids]: whether it has a column "UM ID", and that
\* column's cells, one per row (NaN in the rows of a file without it).
\* A file is [present, ...]: whether it exists, and the table read from it.

\* pd.DataFrame()
EmptyFrame == [hasId |-> FALSE, ids |-> <<>>]

\* DataFrame.empty
IsEmpty(d) == Len(d.ids) = 0

\* the column "UM ID" of a dues file within the concatenation
IdColumn(file) ==
    IF file.hasId THEN file.ids ELSE [n \in 1..Len(file.ids) |-> NaN]

\* pd.concat([aug_dues, aug_dues_g], ignore_index=True)
Concat(a, b) ==
    [hasId |-> a.hasId \/ b.hasId, ids |-> IdColumn(a) \o IdColumn(b)]

\* Variant: the FileNotFoundError is not caught.
LoadDuesBodyNoExcept(a, g) ==
    IF a.present /\ g.present
    THEN [val |-> Concat(a, g), warned |-> FALSE, raised |-> FALSE]
    ELSE [val |-> EmptyFrame, warned |-> FALSE, raised |-> TRUE]

\* The body of load_dues, [val, warned, raised]: both files combined, or, with
\* a file missing, the FileNotFoundError caught, a warning and an empty table.
LoadDuesBody(a, g) ==
    IF a.present /\ g.present
    THEN [val |-> Concat(a, g), warned |-> FALSE, raised |-> FALSE]
    ELSE [val |-> EmptyFrame, warned |-> TRUE, raised |-> FALSE]

\* load_dues() under st.cache_data, [hit, val, warned, raised]: the entry is
\* filled by the first call that returns, and every call gets its own copy of
\* the value (with the warning shown again).
load_dues(cache, a, g) ==
    IF cache.hit THEN cache
    ELSE [hit |-> ~LoadDuesBody(a, g).raised, val |-> LoadDuesBody(a, g).val,
          warned |-> LoadDuesBody(a, g).warned,
          raised |-> LoadDuesBody(a, g).raised]

\* load_monthly() under st.cache_data, [hit, val, raised]: pd.read_csv raises
\* FileNotFoundError on a missing file, and nothing catches it.
load_monthly(cache, file) ==
    IF cache.hit THEN cache
    ELSE IF file.present THEN [hit |-> TRUE, val |-> file.rows, raised |-> FALSE]
    ELSE [hit |-> FALSE, val |-> <<>>, raised |-> TRUE]

\* Variant: the cache hands out the cached object itself (st.cache_resource).
CacheShared(entry, local) == [entry EXCEPT !.val = local]

\* What a cache entry holds once the caller has changed the table it was
\* given: st.cache_data hands out copies, the entry keeps the loaded value.
CacheAfterCall(entry, local) == entry

\* ------------------------------------------------------------ the merge
\* df[id_col] = pd.to_numeric(df[id_col], errors="coerce")
CoerceIds(t) ==
    Only({SubSeq([n \in 1..Len(t) |-> [t[n] EXCEPT !.id = col[n]]], 1, Len(t)) :
            col \in {to_numeric([n \in 1..Len(t) |-> t[n].id])}})

\* monthly["UM ID"] = pd.to_numeric(monthly["UM ID"], errors="coerce")
CoerceUmids(t) ==
    Only({SubSeq([n \in 1..Len(t) |-> [t[n] EXCEPT !.umid = col[n]]], 1, Len(t)) :
            col \in {to_numeric([n \in 1..Len(t) |-> t[n].umid])}})

\* dues_df["UM ID"] = pd.to_numeric(dues_df["UM ID"], errors="coerce")
CoerceDues(d) == [d EXCEPT !.ids = to_numeric(@)]

\* A campus row with a payroll row that matches it.
JoinRow(l, r) ==
    [cls |-> l.cls, id |-> l.id, emp |-> r.emp, umid |-> r.umid, title |-> r.title]

\* A campus row without a match: the payroll columns are missing.
Unmatched(l) ==
    [cls |-> l.cls, id |-> l.id, emp |-> 0, umid |-> NaN, title |-> NaN]

\* The rows of the left join that come from the campus row l: one per matching
\* payroll row, in the payroll table's order, or the unmatched row.
RowsFor(l, right) ==
    LET m == SelectSeq(right, LAMBDA r : KeyMatch(l.id, r.umid))
    IN  IF m = <<>> THEN <<Unmatched(l)>>
        ELSE [n \in 1..Len(m) |-> JoinRow(l, m[n])]

\* Variant: the rows in the order of the payroll table (the matches of its
\* first row, then of its second, ...), the unmatched campus rows last.
RECURSIVE MatchesInRightOrder(_, _)
MatchesInRightOrder(left, right) ==
    IF right = <<>> THEN <<>>
    ELSE LET r == Head(right)
             m == SelectSeq(left, LAMBDA l : KeyMatch(l.id, r.umid))
         IN  [n \in 1..Len(m) |-> JoinRow(m[n], r)]
             \o MatchesInRightOrder(left, Tail(right))

JoinInRightOrder(left, right) ==
    LET lone == SelectSeq(left,
                    LAMBDA l : \A n \in 1..Len(right) : ~KeyMatch(l.id, right[n].umid))
    IN  MatchesInRightOrder(left, right) \o [n \in 1..Len(lone) |-> Unmatched(lone[n])]

\* The rows of the left join: those of the first campus row, then those of
\* the second, ...
RECURSIVE LeftJoin(_, _)
LeftJoin(left, right) ==
    IF left = <<>> THEN <<>>
    ELSE RowsFor(Head(left), right) \o LeftJoin(Tail(left), right)

\* The column "UM ID" of the joined rows: with a campus row unmatched it holds
\* NaN, and a column of integers becomes one of float64.
Upcast(rows) ==
    IF \E n \in 1..Len(rows) : IsNa(rows[n].umid)
    THEN SubSeq([n \in 1..Len(rows) |-> [rows[n] EXCEPT !.umid = AsFloat(@)]],
                1, Len(rows))
    ELSE rows

\* df.merge(monthly, left_on=id_col, right_on="UM ID", how="left")
Merge(left, right) ==
    Only({Only({Upcast(rows) : rows \in {LeftJoin(l, r)}}) :
            l \in {left}, r \in {right}})

\* Series.fillna("")
FillNa(c) == IF IsNa(c) THEN Str(<<>>) ELSE c

\* merged["Job Title"].fillna("").str.lower().str.startswith(LEO_PREFIX)
Mask(row) == StartsWith(Lower(FillNa(row.title).s), LEO_PREFIX)

\* merged["Job Title"].str.strip().ne(""): a missing title is not equal to ""
NonBlank(row) == IF IsNa(row.title) THEN TRUE ELSE Strip(row.title.s) # <<>>

\* Variant: mask | ... in place of mask & ...
KeepLecturersOr(t) == SelectSeq(t, LAMBDA row : Mask(row) \/ NonBlank(row))

\* merged[mask & merged["Job Title"].str.strip().ne("")]
KeepLecturers(t) == SelectSeq(t, LAMBDA row : Mask(row) /\ NonBlank(row))

\* Series.isin: membership, the two columns compared as join keys are (a
\* missing value is a member when one is listed)
IsIn(c, values) == \E n \in 1..Len(values) : KeyMatch(c, values[n])

\* Variant: the column is not asked for.
DuesAvailableNoColumnTest(d) == ~IsEmpty(d)

\* not dues_df.empty and "UM ID" in dues_df.columns
DuesAvailable(d) == ~IsEmpty(d) /\ d.hasId

WithDues(row, status) ==
    [cls |-> row.cls, id |-> row.id, emp |-> row.emp, umid |-> row.umid,
     title |-> row.title, dues |-> status]

\* The column "Dues Status" added to the kept rows.
AddDuesStatus(t, d) ==
    IF DuesAvailable(d)
    THEN Only({[n \in 1..Len(rows) |->
                  WithDues(rows[n], IF IsIn(rows[n].umid, ids)
                                    THEN "Paid" ELSE "Not Paid")] :
                 rows \in {t}, ids \in {CoerceDues(d).ids}})
    ELSE Only({[n \in 1..Len(rows) |-> WithDues(rows[n], "Unknown")] : rows \in {t}})

\* The local dues_df when the call returns.
DuesLocal(d) == IF DuesAvailable(d) THEN CoerceDues(d) ELSE d

\* merge_monthly_and_dues(df, id_col)
MergeMonthlyAndDues ==
    /\ calls < MaxCalls
    /\ calls' = calls + 1
    /\ df_in' = df
    /\ LET cm == load_monthly(cacheMonthly, monthlyFile)
           cd == load_dues(cacheDues, augDuesFile, augDuesGFile)
           ids == CoerceIds(df)
           pay == CoerceUmids(cm.val)
           j == Merge(ids, pay)
           out == AddDuesStatus(KeepLecturers(j), cd.val)
       IN  IF cm.raised
           THEN /\ raised' = TRUE
                /\ UNCHANGED <<df, cacheMonthly, cacheDues, monthly, dues_df,
                               joined, merged, returned, warnings>>
           ELSE IF cd.raised
           THEN /\ raised' = TRUE
                /\ cacheMonthly' = cm
                /\ UNCHANGED <<df, cacheDues, monthly, dues_df, joined, merged,
                               returned, warnings>>
           ELSE /\ raised' = FALSE
                /\ df' = ids
                /\ monthly' = pay
                /\ dues_df' = DuesLocal(cd.val)
                /\ cacheMonthly' = CacheAfterCall(cm, pay)
                /\ cacheDues' = CacheAfterCall(cd, DuesLocal(cd.val))
                /\ joined' = j
                /\ merged' = out
                /\ returned' = Append(returned, out)
                /\ warnings' = warnings + (IF cd.warned THEN 1 ELSE 0)
    /\ UNCHANGED <<monthlyFile, augDuesFile, augDuesGFile>>

Next == MergeMonthlyAndDues

\* ------------------------------------------------------------ inputs
\* identifiers as the files spell them
Id12345 == Str(<<"1","2","3","4","5">>)
Id12345Dot0 == Str(<<"1","2","3","4","5",".","0">>)
Id12345Exp == Str(<<"1",".","2","3","4","5","e","4">>)
Id678 == Str(<<"6","7","8">>)
IdAbc == Str(<<"a","b","c">>)

\* job titles as the payroll file spells them
LeoLecturerI == Str(<<"L","E","O"," ","L","e","c","t","u","r","e","r"," ","I">>)
LeoLecturerII == Str(<<"L","e","o"," ","L","e","c","t","u","r","e","r"," ","I","I">>)
PaddedLeo == Str(<<" ","L","E","O"," ","L","e","c","t","u","r","e","r"," ","I">>)
Professor == Str(<<"P","r","o","f","e","s","s","o","r">>)
Blank == Str(<<" ">>)

SeqsUpTo(S, lo, hi) == UNION {[1..n -> S] : n \in lo..hi}

\* the campus tables with the identifiers ids, of 1..MaxCampusRows rows
CampusTables(ids) ==
    {[n \in 1..Len(q) |-> [cls |-> n, id |-> q[n]]] :
        q \in SeqsUpTo(ids, 1, MaxCampusRows)}

\* the payroll tables with the identifiers ids and the titles titles
PayrollTables(ids, titles) ==
    {[n \in 1..Len(q) |-> [emp |-> n, umid |-> q[n][1], title |-> q[n][2]]] :
        q \in SeqsUpTo(ids \X titles, 1, MaxPayrollRows)}

PayrollFiles(ids, titles) ==
    {[present |-> TRUE, rows |-> r] : r \in PayrollTables(ids, titles)}

MissingPayroll == [present |-> FALSE, rows |-> <<>>]

MissingFile == [present |-> FALSE, hasId |-> FALSE, ids |-> <<>>]

\* the dues files: missing, without a column "UM ID" (rows of other columns
\* only), or with the column and the identifiers ids
DuesFiles(ids) ==
    {MissingFile}
    \cup {[present |-> TRUE, hasId |-> FALSE, ids |-> [n \in 1..k |-> NaN]] :
            k \in 0..MaxDuesRows}
    \cup {[present |-> TRUE, hasId |-> TRUE, ids |-> q] :
            q \in SeqsUpTo(ids, 0, MaxDuesRows)}

\* Nothing is loaded and nothing has been called.
Fresh ==
    /\ cacheMonthly = [hit |-> FALSE, val |-> <<>>, raised |-> FALSE]
    /\ cacheDues = [hit |-> FALSE, val |-> EmptyFrame, warned |-> FALSE,
                    raised |-> FALSE]
    /\ monthly = <<>>
    /\ dues_df = EmptyFrame
    /\ joined = <<>>
    /\ merged = <<>>
    /\ returned = <<>>
    /\ warnings = 0
    /\ raised = FALSE
    /\ calls = 0
    /\ df_in = df

\* The join: every spelling of the identifiers on both sides.
Init ==
    /\ df \in CampusTables({IdAbc, Id12345, Id12345Dot0, Id12345Exp, Id678})
    /\ monthlyFile \in PayrollFiles({NaN, Id12345, Id678}, {LeoLecturerI, Professor})
    /\ augDuesFile = [present |-> TRUE, hasId |-> TRUE, ids |-> <<Id12345>>]
    /\ augDuesGFile = [present |-> TRUE, hasId |-> TRUE, ids |-> <<>>]
    /\ Fresh

\* The lecturer filter: every kind of job title.
InitFilter ==
    /\ df \in CampusTables({IdAbc, Id12345})
    /\ monthlyFile \in PayrollFiles({Id12345},
            {NaN, Blank, LeoLecturerI, LeoLecturerII, PaddedLeo, Professor})
    /\ augDuesFile = MissingFile
    /\ augDuesGFile = [present |-> TRUE, hasId |-> TRUE, ids |-> <<Id12345>>]
    /\ Fresh

\* the payroll file of the dues runs
DuesPayroll ==
    [present |-> TRUE,
     rows |-> <<[emp |-> 1, umid |-> Id12345, title |-> LeoLecturerI],
                [emp |-> 2, umid |-> NaN, title |-> LeoLecturerII],
                [emp |-> 3, umid |-> Id678, title |-> LeoLecturerI],
                [emp |-> 4, umid |-> Id678, title |-> Professor]>>]

\* The dues: every state of the two dues files.
InitDues ==
    /\ df \in CampusTables({IdAbc, Id12345, Id678})
    /\ monthlyFile \in {MissingPayroll, DuesPayroll}
    /\ augDuesFile \in DuesFiles({NaN, IdAbc, Id12345})
    /\ augDuesGFile \in DuesFiles({Id12345Dot0, Id678})
    /\ Fresh

Spec == Init /\ [][Next]_vars
SpecFilter == InitFilter /\ [][Next]_vars
SpecDues == InitDues /\ [][Next]_vars

\* ------------------------------------------------------------ claims
\* The last call returned.
Called == calls > 0 /\ ~raised

\* A job title that, trimmed and lower-cased, is non-empty and starts with "leo".
LecturerTitle(c) ==
    /\ c.k = "str"
    /\ Strip(Lower(c.s)) # <<>>
    /\ StartsWith(Strip(Lower(c.s)), LEO_PREFIX)

\* The joined row j is a row of the returned table.
Retained(j) ==
    \E m \in 1..Len(merged) :
        /\ merged[m].cls = j.cls /\ merged[m].emp = j.emp
        /\ merged[m].id = j.id /\ merged[m].umid = j.umid
        /\ merged[m].title = j.title

\* An identifier that is missing or is no number.
Unparseable(c) == c \in {NaN, IdAbc}

\* Both dues files combined, as load_dues reads them when both exist.
CombinedDues == Concat(augDuesFile, augDuesGFile)
BothDuesFiles == augDuesFile.present /\ augDuesGFile.present

\* C1: every returned row has a Job Title that is present and, trimmed and
\* lower-cased, is non-empty and starts with "leo"; no joined row with a
\* missing, blank or other title is returned (unmatched campus rows included).
C1_OnlyLecturers ==
    /\ \A m \in 1..Len(merged) : LecturerTitle(merged[m].title)
    /\ \A j \in 1..Len(joined) :
          ~LecturerTitle(joined[j].title) => ~Retained(joined[j])

\* C1: a call whose join has an unmatched campus row, a row with a blank
\* title, and a row that is returned.
C1_Witness ==
    /\ Called
    /\ \E j \in 1..Len(joined) : joined[j].emp = 0 /\ IsNa(joined[j].title)
    /\ \E j \in 1..Len(joined) : joined[j].title = Blank
    /\ merged # <<>>

\* C2: a campus row whose identifier is missing or is no number is joined to no
\* payroll row, whatever the payroll table holds: its Job Title is missing and
\* it is not returned.
C2_UnparseableNeverJoined ==
    Called =>
        \A n \in 1..Len(df_in) :
            Unparseable(df_in[n].id) =>
                /\ \A j \in 1..Len(joined) :
                      joined[j].cls = df_in[n].cls =>
                          joined[j].emp = 0 /\ IsNa(joined[j].title)
                /\ \A m \in 1..Len(merged) : merged[m].cls # df_in[n].cls

\* C3: with a combined dues table that has rows and a column "UM ID", a
\* returned row is "Paid" if and only if its identifier is numerically equal
\* to the coerced UM ID of a dues row, and is "Not Paid" otherwise.
C3_PaidIffInDues ==
    (Called /\ BothDuesFiles /\ DuesAvailable(CombinedDues)) =>
        \A m \in 1..Len(merged) :
            LET paid == \E d \in 1..Len(CombinedDues.ids) :
                            NumEq(merged[m].id, ToNumeric(CombinedDues.ids[d]))
            IN  merged[m].dues = (IF paid THEN "Paid" ELSE "Not Paid")

\* C4 as stated: Dues Status is one of the three values, never mixed, and with
\* both dues files read no returned row is "Unknown".
C4_UnknownOnlyWhenNotLoaded ==
    Called =>
        /\ \A m \in 1..Len(merged) : merged[m].dues \in {"Paid", "Not Paid", "Unknown"}
        /\ \/ \A m \in 1..Len(merged) : merged[m].dues = "Unknown"
           \/ \A m \in 1..Len(merged) : merged[m].dues # "Unknown"
        /\ BothDuesFiles => \A m \in 1..Len(merged) : merged[m].dues # "Unknown"

\* C4 as amended: Dues Status is one of the three values; every returned row is
\* "Unknown" when a dues file is missing, the combined dues table has no row or
\* it has no column "UM ID", and every returned row is "Paid" or "Not Paid"
\* otherwise.
C4_UnknownIffNoDuesRows ==
    Called =>
        /\ \A m \in 1..Len(merged) : merged[m].dues \in {"Paid", "Not Paid", "Unknown"}
        /\ IF BothDuesFiles /\ Len(CombinedDues.ids) > 0 /\ CombinedDues.hasId
           THEN \A m \in 1..Len(merged) : merged[m].dues \in {"Paid", "Not Paid"}
           ELSE \A m \in 1..Len(merged) : merged[m].dues = "Unknown"

\* C4: both dues files were read (one without rows, one without the column),
\* and a returned row is "Unknown".
C4_Witness ==
    /\ Called
    /\ BothDuesFiles
    /\ Len(CombinedDues.ids) > 0
    /\ \E m \in 1..Len(merged) : merged[m].dues = "Unknown"

\* C5: with a dues file missing (and the payroll file there) the call does not
\* raise: a warning is shown, the dues table is empty, and the lecturer rows
\* of the join are returned, each "Unknown".
C5_MissingDuesFile ==
    (calls > 0 /\ monthlyFile.present /\ ~BothDuesFiles) =>
        /\ ~raised
        /\ Len(returned) = calls
        /\ warnings >= 1
        /\ dues_df = EmptyFrame
        /\ Len(merged) = Len(KeepLecturers(joined))
        /\ \A m \in 1..Len(merged) :
              /\ merged[m].dues = "Unknown"
              /\ merged[m].cls = KeepLecturers(joined)[m].cls
              /\ merged[m].emp = KeepLecturers(joined)[m].emp
              /\ merged[m].title = KeepLecturers(joined)[m].title

\* C5: AugDues.csv is missing, AugDuesG.csv is not, and rows are returned.
C5_Witness ==
    /\ calls > 0
    /\ ~augDuesFile.present /\ augDuesGFile.present
    /\ merged # <<>>
    /\ warnings >= 1

\* C6: for a campus row whose identifier equals, as a number, the UM ID of a
\* payroll row, the join holds a row of the two with the payroll row's Job
\* Title as the file spells it, every joined row of that campus row carries
\* the title of such a payroll row, and with the title "LEO Lecturer I" the row
\* is returned; so for the identifier "12345", "12345.0" or "1.2345e4" against
\* UM ID "12345".
C6_MatchedTitle ==
    Called =>
        /\ \A n \in 1..Len(df) : \A p \in 1..Len(monthlyFile.rows) :
              LET pr == monthlyFile.rows[p]
                  Of(row) == /\ row.cls = df[n].cls /\ row.id = df[n].id
                             /\ row.emp = pr.emp /\ row.title = pr.title
                             /\ NumEq(row.umid, ToNumeric(pr.umid))
              IN  NumEq(df[n].id, ToNumeric(pr.umid)) =>
                      /\ \E j \in 1..Len(joined) : Of(joined[j])
                      /\ pr.title = LeoLecturerI =>
                             \E m \in 1..Len(merged) : Of(merged[m])
        /\ \A j \in 1..Len(joined) :
              IsNumber(joined[j].id) /\ joined[j].emp # 0 =>
                  \E p \in 1..Len(monthlyFile.rows) :
                      /\ monthlyFile.rows[p].emp = joined[j].emp
                      /\ monthlyFile.rows[p].title = joined[j].title
                      /\ NumEq(joined[j].id, ToNumeric(monthlyFile.rows[p].umid))
        /\ \A n \in 1..Len(df_in) : \A p \in 1..Len(monthlyFile.rows) :
              (/\ df_in[n].id \in {Id12345, Id12345Dot0, Id12345Exp}
               /\ monthlyFile.rows[p].umid = Id12345
               /\ monthlyFile.rows[p].title = LeoLecturerI) =>
                  \E m \in 1..Len(merged) :
                      /\ merged[m].cls = df_in[n].cls
                      /\ merged[m].emp = monthlyFile.rows[p].emp
                      /\ merged[m].title = LeoLecturerI

\* C6: the campus identifier "12345.0" met UM ID "12345", and the row is
\* returned with the title "LEO Lecturer I".
C6_Witness ==
    /\ Called
    /\ \E n \in 1..Len(df_in) : \E m \in 1..Len(merged) :
          /\ df_in[n].id = Id12345Dot0
          /\ merged[m].cls = df_in[n].cls
          /\ merged[m].title = LeoLecturerI
          /\ monthlyFile.rows[merged[m].emp].umid = Id12345

\* C7: all calls on the same campus table and the same files return the same
\* table.
C7_Idempotent ==
    \A a, b \in 1..Len(returned) : returned[a] = returned[b]

\* C7: a second call returned, with a "Paid" row in its table.
C7_Witness ==
    /\ Len(returned) >= 2
    /\ \E m \in 1..Len(returned[2]) : returned[2][m].dues = "Paid"

\* C8 as stated: after the call the campus table and the payroll and dues
\* tables the loaders gave are as they were before it.
C8_NothingMutated ==
    Called =>
        /\ df = df_in
        /\ monthly = monthlyFile.rows
        /\ dues_df = LoadDuesBody(augDuesFile, augDuesGFile).val

\* C8 as amended: the call returns a new table and leaves the cached tables as
\* they were loaded; of the campus table it changes the identifier column
\* alone, and of its copies of the payroll and dues tables the column "UM ID"
\* alone, to numbers (NaN for what is no number).
C8_OnlyIdColumnsCoerced ==
    Called =>
        /\ cacheMonthly.val = monthlyFile.rows
        /\ cacheDues.val = LoadDuesBody(augDuesFile, augDuesGFile).val
        /\ Len(df) = Len(df_in)
        /\ \A n \in 1..Len(df) :
              /\ df[n].cls = df_in[n].cls
              /\ df[n].id.k # "str"
              /\ df_in[n].id.k # "str" => df[n].id = df_in[n].id
        /\ Len(monthly) = Len(monthlyFile.rows)
        /\ \A n \in 1..Len(monthly) :
              /\ monthly[n].emp = monthlyFile.rows[n].emp
              /\ monthly[n].title = monthlyFile.rows[n].title
              /\ monthly[n].umid.k # "str"
        /\ dues_df.hasId = cacheDues.val.hasId
        /\ Len(dues_df.ids) = Len(cacheDues.val.ids)

\* C8: a call after which the campus table and both copies differ from what
\* they were.
C8_Witness ==
    /\ Called
    /\ df # df_in
    /\ monthly # cacheMonthly.val
    /\ dues_df # cacheDues.val

\* C9: the returned rows are in the order of the campus rows they come from,
\* and each comes from a campus row.
C9_CampusOrder ==
    Called =>
        /\ \A a, b \in 1..Len(merged) : a < b => merged[a].cls <= merged[b].cls
        /\ \A a, b \in 1..Len(joined) : a < b => joined[a].cls <= joined[b].cls
        /\ \A m \in 1..Len(merged) :
              \E n \in 1..Len(df) :
                  df[n].cls = merged[m].cls /\ df[n].id = merged[m].id

\* C9: two returned rows whose campus rows are in one order and whose payroll
\* rows are in the other.
C9_Witness ==
    /\ Called
    /\ \E a, b \in 1..Len(merged) :
          /\ a < b /\ merged[a].cls < merged[b].cls /\ merged[a].emp > merged[b].emp
          /\ IsNumber(merged[a].id) /\ IsNumber(merged[b].id)

\* C10: a joined row is returned if and only if its Job Title, trimmed and
\* lower-cased, is non-empty and starts with "leo".
C10_FilterComplete ==
    Called =>
        \A j \in 1..Len(joined) :
            Retained(joined[j]) <=> LecturerTitle(joined[j].title)
====
